---- MODULE Spec2Model ----
(***************************************************************************)
(* Sequential-learning agents (SGD, Ensemble, Laplace, NUTS, SGLD), their   *)
(* replay Memory and the train loop of seql/utils.py, as a state machine.   *)
(*                                                                          *)
(* Numerical collaborators (optimizer, autodiff, samplers, solver) are      *)
(* deterministic functions of their arguments; they are modelled as         *)
(* arithmetic modulo |Val| over small integers, so that every data         *)
(* dependence of the code (which arguments a call reads) is kept.           *)
(***************************************************************************)
EXTENDS Integers, Sequences, FiniteSets, TLC

VARIABLES
    agent,      \* the constructed agent: variant and configuration (self.*)
    memory,     \* the agent's Memory: [x, y] retained arrays (self.memory)
    appended,   \* history: every sample handed to Memory.update, in order
    belief,     \* the belief the caller currently holds
    call,       \* the most recent API call: <<>> or <<record>>
    pc,         \* train: position of the loop
    tr          \* train: the loop's locals and its event trace

vars == <<agent, memory, appended, belief, call, pc, tr>>

(***************************************************************************)
(* Bounds of the model.                                                     *)
(***************************************************************************)
MaxBatch == 2      \* longest batch an environment or caller hands over
MaxTotal == 3      \* samples handed to one agent over a run
MaxSteps == 2      \* largest nsteps of a train invocation

INF == 99          \* jnp.inf, larger than every length of the model

Val == {0, 1}        \* parameter, loss and optimizer values
Data == {1, 2}       \* sample values
RootKeys == {<<0>>, <<1>>}

(***************************************************************************)
(* Sequences and Python slicing.                                            *)
(***************************************************************************)
\* F applied to the value v, with v evaluated once.
With(v, F(_)) == CHOOSE r \in {F(m) : m \in {v}} : TRUE

RECURSIVE SumSeq(_)
SumSeq(s) == IF s = <<>> THEN 0 ELSE Head(s) + SumSeq(Tail(s))

\* The statistic of the data (x, y) the numerical collaborators read.
Dot(x, y) == SumSeq([i \in 1 .. Len(x) |-> x[i] * y[i]])

SeqsUpTo(S, n) == UNION {[1 .. k -> S] : k \in 0 .. n}

\* Python s[-n:] for an integer n >= 0: s[-0:] is s[0:], the whole sequence.
PySliceLast(s, n) ==
    IF n = 0 \/ n >= Len(s) THEN s
    ELSE SubSeq(s, Len(s) - n + 1, Len(s))

\* The newest n elements of s (all of s when it has at most n).
Newest(s, n) ==
    IF Len(s) <= n THEN s
    ELSE SubSeq(s, Len(s) - n + 1, Len(s))

\* The label that travels with input v: a batch is (x, y) with y[i] = Label(x[i]).
Label(v) == v + 10
Labels(x) == [i \in 1 .. Len(x) |-> Label(x[i])]
Batches == SeqsUpTo(Data, MaxBatch)

(***************************************************************************)
(* jax.random: keys are split paths, so that derived keys are distinct.     *)
(***************************************************************************)
\* KeyHash is the stream of bits a key stands for, reduced to a number: the
\* hashes of the keys split from one key are not in arithmetic progression, so
\* draws made with them can repeat a value.
split(key, n) == [i \in 1 .. n |-> Append(key, i - 1)]
RECURSIVE KeyHash(_)
KeyHash(key) ==
    IF key = <<>> THEN 0
    ELSE LET h == KeyHash(SubSeq(key, 1, Len(key) - 1))
             c == key[Len(key)]
         IN  h * (c + 1) + c * c + 1
randint(key, lo, hi) == lo + (KeyHash(key) % (hi - lo))

(***************************************************************************)
(* Memory (seql/agents/agent_utils.py): update(x, y) appends the batch to   *)
(* the retained window and keeps the most recent buffer_size entries; with  *)
(* buffer_size = 0 it is disabled and holds the incoming batch only.        *)
(***************************************************************************)
Memory_init == [x |-> <<>>, y |-> <<>>]

Memory_update(buffer_size, mem, x, y) ==
    IF buffer_size = 0
    THEN [x |-> x, y |-> y]
    ELSE [x |-> Newest(mem.x \o x, buffer_size),
          y |-> Newest(mem.y \o y, buffer_size)]

(***************************************************************************)
(* Outcomes of a call: a returned pair (belief, info) or a raised exception.*)
(* warned records warnings.warn("There should be more data.").              *)
(* The result of update / sample_params is [input, memory, out]: the belief *)
(* object the call was handed as the call leaves it (no method assigns to   *)
(* it or to an array in it), self.memory after the call, and the outcome.   *)
(***************************************************************************)
Return(b, info, warned) ==
    [kind |-> "return", belief |-> <<b>>, info |-> info, warned |-> warned, params |-> <<>>]
Raise(exc, warned) ==
    [kind |-> exc, belief |-> <<>>, info |-> <<>>, warned |-> warned, params |-> <<>>]
\* sample_params returns one parameter value
ReturnParams(p) ==
    [kind |-> "return", belief |-> <<>>, info |-> <<>>, warned |-> FALSE, params |-> <<p>>]

\* NamedTuple construction: Info(*args) for an Info class with nfields fields
\* and no defaults raises TypeError unless it gets exactly nfields arguments.
NamedTupleOk(nfields, nargs) == nargs = nfields

SGDInfoFields == 1          \* class Info(NamedTuple): loss: float
EnsembleInfoFields == 0     \* class Info(NamedTuple): ...
SGLDInfoFields == 0
SentinelArgs == 3           \* Info(False, -1, jnp.inf)

(***************************************************************************)
(* Numerical collaborators, as deterministic functions modulo |Val|.         *)
(***************************************************************************)
Mod(n) == n % Cardinality(Val)

\* loss_fn(params, x, y) = -(loglikelihood(params, x, y, model_fn) + logprior(params))
loss_fn(params, x, y) == Mod(params + Dot(x, y))
\* jit(value_and_grad(loss_fn)): (loss, grads) at params on the data (x, y)
value_and_grad_fn(params, x, y) ==
    [loss |-> loss_fn(params, x, y), grads |-> Mod(params + Dot(x, y) + 1)]
\* optax: optimizer.init, optimizer.update(grads, opt_state), apply_updates
optimizer_init(params) == 0
optimizer_update(grads, opt_state) ==
    [updates |-> Mod(grads + opt_state), opt_state |-> Mod(opt_state + grads + 1)]
apply_updates(params, updates) == Mod(params + updates)

(***************************************************************************)
(* Agent objects.  One record shape for all variants; a field a variant's   *)
(* constructor does not set is 0.  threshold is self.threshold (SGD, NUTS)  *)
(* or self.min_n_samples (Ensemble, Laplace, SGLD).                         *)
(***************************************************************************)
AgentRec(variant, buffer_size, threshold, nepochs, nensembles, nsamples, nlast, batch_size) ==
    [variant |-> variant, buffer_size |-> buffer_size, threshold |-> threshold,
     nepochs |-> nepochs, nensembles |-> nensembles, nsamples |-> nsamples,
     nlast |-> nlast, batch_size |-> batch_size]

\* Each constructor: ok is whether its assertions pass, self the object built.
SGDAgent(nepochs, threshold, buffer_size) ==
    [ok |-> threshold <= buffer_size,
     self |-> AgentRec("SGD", buffer_size, threshold, nepochs, 0, 0, 0, 0)]

EnsembleAgent(nensembles, nepochs, min_n_samples, buffer_size) ==
    [ok |-> min_n_samples <= buffer_size,
     self |-> AgentRec("Ensemble", buffer_size, min_n_samples, nepochs, nensembles, 0, 0, 0)]

LaplaceAgent(min_n_samples, buffer_size) ==
    [ok |-> TRUE,
     self |-> AgentRec("Laplace", buffer_size, min_n_samples, 0, 0, 0, 0, 0)]

BlackJaxNutsAgent(nsamples, nlast, buffer_size, min_n_samples) ==
    LET bs == IF buffer_size = INF THEN 0 ELSE buffer_size IN
    [ok |-> min_n_samples <= bs \/ bs = 0,
     self |-> AgentRec("NUTS", bs, min_n_samples, 0, 0, nsamples, nlast, 0)]

SGLDAgent(batch_size, nsamples, nlast, min_n_samples, buffer_size) ==
    [ok |-> min_n_samples <= buffer_size,
     self |-> AgentRec("SGLD", buffer_size, min_n_samples, 0, 0, nsamples, nlast, batch_size)]

(***************************************************************************)
(* SGDAgent                                                                 *)
(***************************************************************************)
sgd_init_state(params) == [params |-> params, opt_state |-> optimizer_init(params)]

\* for _ in range(nepochs): one optimizer step per epoch on the whole (x_, y_).
\* loss is <<>> while the name is unbound, <<l>> once an epoch has assigned it.
RECURSIVE sgd_epochs(_, _, _, _, _, _)
sgd_epochs(n, params, opt_state, loss, x_, y_) ==
    IF n = 0 THEN [params |-> params, opt_state |-> opt_state, loss |-> loss]
    ELSE LET vg == value_and_grad_fn(params, x_, y_)
             ou == optimizer_update(vg.grads, opt_state)
         IN  sgd_epochs(n - 1, apply_updates(params, ou.updates), ou.opt_state,
                        <<vg.loss>>, x_, y_)

\* The short-circuit branch: warn, then build the sentinel Info(False, -1, jnp.inf).
ShortCircuitInfo(nfields, b) ==
    IF NamedTupleOk(nfields, SentinelArgs)
    THEN Return(b, <<"Info", FALSE, -1, INF>>, TRUE)
    ELSE Raise("TypeError", TRUE)

\* The inference step of update on the accumulation (x_, y_); Info(loss) reads
\* the loss of the last epoch, a name no epoch has bound when nepochs = 0.
sgd_infer(self, b, x_, y_) ==
    LET r == sgd_epochs(self.nepochs, b.params, b.opt_state, <<>>, x_, y_) IN
    IF r.loss = <<>>
    THEN Raise("UnboundLocalError", FALSE)
    ELSE Return([params |-> r.params, opt_state |-> r.opt_state],
                <<"Info", r.loss[1]>>, FALSE)

\* Mutant: the short-circuit returns without the batch having been stored.
sgd_update_drops_batch(self, mem, key, b, x, y) ==
    IF ~(self.buffer_size >= Len(x))
    THEN [input |-> b, memory |-> mem, out |-> Raise("AssertionError", FALSE)]
    ELSE LET m == Memory_update(self.buffer_size, mem, x, y) IN
         IF Len(m.x) < self.threshold
         THEN [input |-> b, memory |-> mem, out |-> ShortCircuitInfo(SGDInfoFields, b)]
         ELSE [input |-> b, memory |-> m, out |-> sgd_infer(self, b, m.x, m.y)]

\* Mutant: the fitted params and opt_state are written into the belief handed in.
sgd_update_in_place(self, mem, key, b, x, y) ==
    IF ~(self.buffer_size >= Len(x))
    THEN [input |-> b, memory |-> mem, out |-> Raise("AssertionError", FALSE)]
    ELSE LET m == Memory_update(self.buffer_size, mem, x, y)
             o == sgd_infer(self, b, m.x, m.y)
         IN  IF Len(m.x) < self.threshold
             THEN [input |-> b, memory |-> m, out |-> ShortCircuitInfo(SGDInfoFields, b)]
             ELSE [input |-> IF o.kind = "return" THEN o.belief[1] ELSE b,
                   memory |-> m, out |-> o]

\* Mutant: the epochs fit the incoming batch instead of the retained buffer.
sgd_update_fits_batch_only(self, mem, key, b, x, y) ==
    IF ~(self.buffer_size >= Len(x))
    THEN [input |-> b, memory |-> mem, out |-> Raise("AssertionError", FALSE)]
    ELSE LET m == Memory_update(self.buffer_size, mem, x, y) IN
         IF Len(m.x) < self.threshold
         THEN [input |-> b, memory |-> m, out |-> ShortCircuitInfo(SGDInfoFields, b)]
         ELSE [input |-> b, memory |-> m, out |-> sgd_infer(self, b, x, y)]

sgd_update(self, mem, key, b, x, y) ==
    IF ~(self.buffer_size >= Len(x))
    THEN [input |-> b, memory |-> mem, out |-> Raise("AssertionError", FALSE)]
    ELSE LET m == Memory_update(self.buffer_size, mem, x, y) IN
         IF Len(m.x) < self.threshold
         THEN [input |-> b, memory |-> m, out |-> ShortCircuitInfo(SGDInfoFields, b)]
         ELSE [input |-> b, memory |-> m, out |-> sgd_infer(self, b, m.x, m.y)]

sgd_sample_params(self, mem, key, b) == [input |-> b, memory |-> mem, out |-> ReturnParams(b.params)]

(***************************************************************************)
(* EnsembleAgent                                                            *)
(***************************************************************************)
\* init_state(params): params is the stacked tree of the members;
\* opt_states = vmap(optimizer.init)(params).
ensemble_init_state(params) ==
    [params |-> params,
     opt_states |-> [i \in 1 .. Len(params) |->
                        [baseline |-> optimizer_init(params[i].baseline),
                         trainable |-> optimizer_init(params[i].trainable)]]]

\* bootstrap_sampling(key, nsamples): nsamples indices in 0..nsamples-1,
\* the i-th drawn with the i-th key of split(key, nsamples).
bootstrap_sampling(key, nsamples) ==
    LET keys == split(key, nsamples) IN
    [i \in 1 .. nsamples |-> randint(keys[i], 0, nsamples)]

\* take_fn = lambda x, index: x[index], for a vector of 0-based indices
take_fn(x, index) == [i \in 1 .. Len(index) |-> x[index[i] + 1]]

\* value_and_grad of the ensemble loss: the model is
\* beta * model_fn(baseline, x) + model_fn(trainable, x); gradients for both parts.
ensemble_value_and_grad_fn(params, x, y) ==
    [loss |-> Mod(params.baseline + params.trainable + Dot(x, y)),
     grads |-> [baseline |-> Mod(params.baseline + Dot(x, y) + 1),
                trainable |-> Mod(params.trainable + Dot(x, y) + 1)]]

tree_optimizer_update(grads, opt_state) ==
    LET b == optimizer_update(grads.baseline, opt_state.baseline)
        t == optimizer_update(grads.trainable, opt_state.trainable)
    IN [updates |-> [baseline |-> b.updates, trainable |-> t.updates],
        opt_state |-> [baseline |-> b.opt_state, trainable |-> t.opt_state]]

tree_apply_updates(params, updates) ==
    [baseline |-> apply_updates(params.baseline, updates.baseline),
     trainable |-> apply_updates(params.trainable, updates.trainable)]

\* frozen_dict.freeze({"params": {"baseline": baseline, "trainable": params[..]["trainable"]}})
refreeze(baseline, params) == [baseline |-> baseline, trainable |-> params.trainable]

RECURSIVE ensemble_epochs(_, _, _, _, _, _)
ensemble_epochs(n, baseline, params, opt_state, x, y) ==
    IF n = 0 THEN [params |-> params, opt_state |-> opt_state]
    ELSE With(refreeze(baseline, params), LAMBDA p :
         With(ensemble_value_and_grad_fn(p, x, y), LAMBDA vg :
         With(tree_optimizer_update(vg.grads, opt_state), LAMBDA ou :
         With(tree_apply_updates(p, ou.updates), LAMBDA np :
            ensemble_epochs(n - 1, baseline, np, ou.opt_state, x, y)))))

\* Mutant: the parameters of the last epoch are returned as the optimizer left them.
ensemble_train_no_final_freeze(nepochs, params, opt_state, x, y) ==
    LET baseline == params.baseline IN
    With(ensemble_epochs(nepochs, baseline, params, opt_state, x, y), LAMBDA r :
         [params |-> r.params, opt_state |-> r.opt_state])

\* The inner train(params, opt_state, x, y) of update, for one member.
ensemble_train(nepochs, params, opt_state, x, y) ==
    LET baseline == params.baseline IN
    With(ensemble_epochs(nepochs, baseline, params, opt_state, x, y), LAMBDA r :
         [params |-> refreeze(baseline, r.params), opt_state |-> r.opt_state])

\* Mutant: the labels of a member are resampled with the index vector of the
\* next member, so inputs and labels are no longer paired.
ensemble_update_unpaired_labels(self, mem, key, b, x, y) ==
    IF ~(self.buffer_size >= Len(x))
    THEN [input |-> b, memory |-> mem, out |-> Raise("AssertionError", FALSE)]
    ELSE LET m == Memory_update(self.buffer_size, mem, x, y) IN
         IF Len(m.x) < self.threshold
         THEN [input |-> b, memory |-> m, out |-> ShortCircuitInfo(EnsembleInfoFields, b)]
         ELSE LET keys == split(key, self.nensembles)
                  indices == [e \in 1 .. self.nensembles |->
                                 bootstrap_sampling(keys[e], Len(m.x))]
                  xs == [e \in 1 .. self.nensembles |-> take_fn(m.x, indices[e])]
                  ys == [e \in 1 .. self.nensembles |->
                            take_fn(m.y, indices[(e % self.nensembles) + 1])]
              IN  IF Len(b.params) # self.nensembles
                  THEN [input |-> b, memory |-> m, out |-> Raise("ValueError", FALSE)]
                  ELSE With([e \in 1 .. self.nensembles |->
                                      ensemble_train(self.nepochs, b.params[e],
                                                     b.opt_states[e], xs[e], ys[e])],
                            LAMBDA res :
                          [input |-> b, memory |-> m,
                           out |-> Return(
                               [params |-> [e \in 1 .. self.nensembles |-> res[e].params],
                                opt_states |-> [e \in 1 .. self.nensembles |-> res[e].opt_state]],
                               <<"Info">>, FALSE)])

ensemble_update(self, mem, key, b, x, y) ==
    IF ~(self.buffer_size >= Len(x))
    THEN [input |-> b, memory |-> mem, out |-> Raise("AssertionError", FALSE)]
    ELSE LET m == Memory_update(self.buffer_size, mem, x, y) IN
         IF Len(m.x) < self.threshold
         THEN [input |-> b, memory |-> m, out |-> ShortCircuitInfo(EnsembleInfoFields, b)]
         ELSE LET keys == split(key, self.nensembles)
                  indices == [e \in 1 .. self.nensembles |->
                                 bootstrap_sampling(keys[e], Len(m.x))]
                  xs == [e \in 1 .. self.nensembles |-> take_fn(m.x, indices[e])]
                  ys == [e \in 1 .. self.nensembles |-> take_fn(m.y, indices[e])]
              IN  IF Len(b.params) # self.nensembles
                  THEN [input |-> b, memory |-> m, out |-> Raise("ValueError", FALSE)]
                  ELSE With([e \in 1 .. self.nensembles |->
                                      ensemble_train(self.nepochs, b.params[e],
                                                     b.opt_states[e], xs[e], ys[e])],
                            LAMBDA res :
                          [input |-> b, memory |-> m,
                           out |-> Return(
                               [params |-> [e \in 1 .. self.nensembles |-> res[e].params],
                                opt_states |-> [e \in 1 .. self.nensembles |-> res[e].opt_state]],
                               <<"Info">>, FALSE)])

\* sample_key, key = random.split(key); index = randint(sample_key, (), 0, nensembles)
\* Mutant: the index is drawn from one value more than there are members.
ensemble_sample_index_one_more(self, key) == randint(split(key, 2)[1], 0, self.nensembles + 1)
ensemble_sample_index(self, key) == randint(split(key, 2)[1], 0, self.nensembles)

\* tree_map(lambda x: x[index], belief.params); jax clamps an index past the end
\* of the array to its last element.
ensemble_sample_params(self, mem, key, b) ==
    LET index == ensemble_sample_index(self, key)
        at == IF index + 1 > Len(b.params) THEN Len(b.params) ELSE index + 1
    IN  [input |-> b, memory |-> mem, out |-> ReturnParams(b.params[at])]

(***************************************************************************)
(* LaplaceAgent.  Sigma is <<>> for None, <<s>> for a covariance.            *)
(***************************************************************************)
laplace_init_state(mu, Sigma) == [mu |-> mu, Sigma |-> Sigma]

\* solver.run(belief.mu, inputs=x_, outputs=y_) -> (params, info)
solver_run(mu, x, y) ==
    [params |-> Mod(mu + Dot(x, y) + 1), info |-> <<"SolverInfo">>]
\* hessian(partial(energy_fn, inputs=x_, outputs=y_))(params)
hessian_energy(params, x, y) == Mod(params + Dot(x, y))

\* The inference step of update on the accumulation (x_, y_).
laplace_infer(self, b, x_, y_) ==
    LET r == solver_run(b.mu, x_, y_)
        Sigma == hessian_energy(r.params, x_, y_)
    IN  Return([mu |-> r.params, Sigma |-> <<Sigma>>], r.info, FALSE)

\* Mutant: the short-circuit returns without the batch having been stored.
laplace_update_drops_batch(self, mem, key, b, x, y) ==
    LET m == Memory_update(self.buffer_size, mem, x, y) IN
    IF Len(m.x) < self.threshold
    THEN [input |-> b, memory |-> mem, out |-> Return(b, <<"None">>, TRUE)]
    ELSE [input |-> b, memory |-> m, out |-> laplace_infer(self, b, m.x, m.y)]

\* Mutant: the agent works on everything it was ever given, whatever buffer_size is.
laplace_update_keeps_history(self, mem, key, b, x, y) ==
    LET m == [x |-> mem.x \o x, y |-> mem.y \o y] IN
    IF Len(m.x) < self.threshold
    THEN [input |-> b, memory |-> m, out |-> Return(b, <<"None">>, TRUE)]
    ELSE [input |-> b, memory |-> m, out |-> laplace_infer(self, b, m.x, m.y)]

laplace_update(self, mem, key, b, x, y) ==
    LET m == Memory_update(self.buffer_size, mem, x, y) IN
    IF Len(m.x) < self.threshold
    THEN [input |-> b, memory |-> m, out |-> Return(b, <<"None">>, TRUE)]
    ELSE [input |-> b, memory |-> m, out |-> laplace_infer(self, b, m.x, m.y)]

\* MultivariateNormalFullCovariance(mu, Sigma).sample(seed=key); with no
\* covariance given (Sigma is None) the distribution uses the identity.
laplace_sample_params(self, mem, key, b) ==
    LET cov == IF b.Sigma = <<>> THEN 1 ELSE b.Sigma[1] IN
    [input |-> b, memory |-> mem,
     out |-> ReturnParams(Mod(b.mu + cov * KeyHash(key)))]

(***************************************************************************)
(* BlackJaxNutsAgent.  A sampler state is [position, potential_energy];     *)
(* None is <<>>.                                                            *)
(***************************************************************************)
NutsState(position) == [position |-> position, potential_energy |-> <<>>]

nuts_init_state(initial_position) ==
    [state |-> NutsState(initial_position), step_size |-> 0,
     inverse_mass_matrix |-> <<>>, samples |-> <<>>]

\* partial_potential_fn(params) = logprob_fn(params, x_, y_, model_fn): the model's
\* output at params (params times the data) against the labels.
partial_potential_fn(params, x, y) == Mod(params * Dot(x, y) + Len(x))

\* nuts.new_state(position, potential_fn), potential given as its value there
nuts_new_state(position, energy) ==
    [position |-> position, potential_energy |-> <<energy>>]

\* stan_warmup.run(warmup_key, kernel_generator, state, nwarmup)
stan_warmup_run(key, state, x, y) ==
    [final_state |-> nuts_new_state(Mod(state.position + KeyHash(key)),
                                    partial_potential_fn(Mod(state.position + KeyHash(key)), x, y)),
     step_size |-> Mod(state.position + KeyHash(key) + Dot(x, y)),
     inverse_mass_matrix |-> Mod(state.potential_energy[1] + KeyHash(key) + 1)]

\* One step of nuts.kernel(partial_potential_fn, step_size, inverse_mass_matrix)
nuts_kernel(step_size, inverse_mass_matrix, rng_key, state, x, y) ==
    LET pos == Mod(state.position + state.potential_energy[1] + step_size
                   + inverse_mass_matrix + KeyHash(rng_key))
    IN  nuts_new_state(pos, partial_potential_fn(pos, x, y))

\* inference_loop(rng_key, kernel, initial_state, num_samples): the visited states
RECURSIVE nuts_scan(_, _, _, _, _, _, _)
nuts_scan(keys, i, step_size, imm, state, x, y) ==
    IF i > Len(keys) THEN <<>>
    ELSE LET nxt == nuts_kernel(step_size, imm, keys[i], state, x, y)
         IN  <<nxt>> \o nuts_scan(keys, i + 1, step_size, imm, nxt, x, y)

inference_loop(rng_key, step_size, imm, initial_state, num_samples, x, y) ==
    nuts_scan(split(rng_key, num_samples), 1, step_size, imm, initial_state, x, y)

\* jnp.mean(x, axis=0) over the drawn values
Mean(s) == SumSeq(s) \div Len(s)

states_mean(states) ==
    [position |-> Mean([i \in 1 .. Len(states) |-> states[i].position]),
     potential_energy |-> <<Mean([i \in 1 .. Len(states) |-> states[i].potential_energy[1]])>>]

\* Mutant: the sampling phase continues from the state the warm-up ended in.
nuts_infer_continues_warmup(self, key, b, x_, y_) ==
    LET ks == split(key, 2)
        state == nuts_new_state(b.state.position,
                                partial_potential_fn(b.state.position, x_, y_))
        w == stan_warmup_run(ks[1], state, x_, y_)
        states == inference_loop(ks[2], w.step_size, w.inverse_mass_matrix,
                                 w.final_state, self.nsamples, x_, y_)
    IN  Return([state |-> states_mean(states),
                step_size |-> w.step_size,
                inverse_mass_matrix |-> <<w.inverse_mass_matrix>>,
                samples |-> <<PySliceLast(states, self.nlast)>>],
               <<"Info">>, FALSE)

\* The inference step of update on the accumulation (x_, y_): warm-up, then
\* nsamples draws, both started from the state built at belief.state.position.
nuts_infer(self, key, b, x_, y_) ==
    LET ks == split(key, 2)
        warmup_key == ks[1]
        sample_key == ks[2]
        state == nuts_new_state(b.state.position,
                                partial_potential_fn(b.state.position, x_, y_))
        w == stan_warmup_run(warmup_key, state, x_, y_)
        states == inference_loop(sample_key, w.step_size, w.inverse_mass_matrix,
                                 state, self.nsamples, x_, y_)
    IN  Return([state |-> states_mean(states),
                step_size |-> w.step_size,
                inverse_mass_matrix |-> <<w.inverse_mass_matrix>>,
                samples |-> <<PySliceLast(states, self.nlast)>>],
               <<"Info">>, FALSE)

\* Mutant: the threshold is tested on the buffer as it was before the batch.
nuts_update_counts_before_fold(self, mem, key, b, x, y) ==
    IF ~(self.buffer_size >= Len(x))
    THEN [input |-> b, memory |-> mem, out |-> Raise("AssertionError", FALSE)]
    ELSE LET m == Memory_update(self.buffer_size, mem, x, y) IN
         IF Len(mem.x) < self.threshold
         THEN [input |-> b, memory |-> m, out |-> Return(b, <<"Info">>, TRUE)]
         ELSE [input |-> b, memory |-> m, out |-> nuts_infer(self, key, b, m.x, m.y)]

nuts_update(self, mem, key, b, x, y) ==
    IF ~(self.buffer_size >= Len(x))
    THEN [input |-> b, memory |-> mem, out |-> Raise("AssertionError", FALSE)]
    ELSE LET m == Memory_update(self.buffer_size, mem, x, y) IN
         IF Len(m.x) < self.threshold
         THEN [input |-> b, memory |-> m, out |-> Return(b, <<"Info">>, TRUE)]
         ELSE [input |-> b, memory |-> m, out |-> nuts_infer(self, key, b, m.x, m.y)]

\* Mutant: the value returned is a retained draw picked by the key.
nuts_sample_params_from_pool(self, mem, key, b) ==
    [input |-> b, memory |-> mem,
     out |-> IF b.state.potential_energy = <<>> \/ b.inverse_mass_matrix = <<>>
                \/ b.samples = <<>>
             THEN Raise("TypeError", FALSE)
             ELSE ReturnParams(b.samples[1][randint(key, 0, Len(b.samples[1])) + 1].position)]

\* Mutant: the sampler takes two steps and the second position is returned.
nuts_sample_params_two_steps(self, mem, key, b) ==
    [input |-> b, memory |-> mem,
     out |-> IF b.state.potential_energy = <<>> \/ b.inverse_mass_matrix = <<>>
             THEN Raise("TypeError", FALSE)
             ELSE LET e == b.state.potential_energy[1]
                      ks == split(key, 2)
                      one == Mod(b.state.position + e + b.step_size
                                 + b.inverse_mass_matrix[1] + KeyHash(ks[1]))
                  IN  ReturnParams(Mod(one + e + b.step_size
                                       + b.inverse_mass_matrix[1] + KeyHash(ks[2])))]

\* potential_fn = lambda params: belief.state.potential_energy; one kernel step.
\* A belief from init_state has no potential energy and no mass matrix.
nuts_sample_params(self, mem, key, b) ==
    [input |-> b, memory |-> mem,
     out |-> IF b.state.potential_energy = <<>> \/ b.inverse_mass_matrix = <<>>
             THEN Raise("TypeError", FALSE)
             ELSE LET e == b.state.potential_energy[1]
                      k == split(key, 1)[1]
                  IN  ReturnParams(Mod(b.state.position + e + b.step_size
                                       + b.inverse_mass_matrix[1] + KeyHash(k)))]

(***************************************************************************)
(* SGLDAgent.  The sampler handle closes over the data and minibatch size.  *)
(***************************************************************************)
sgld_init_state(params) == [params |-> params, samples |-> <<>>, sampler |-> <<>>]

\* build_sgld_sampler(dt, loglikelihood, logprior, (x_, y_), batch_size_)
build_sgld_sampler(x, y, batch_size) == [x |-> x, y |-> y, batch_size |-> batch_size]

\* sampler(key, nsamples, params): the chain of nsamples draws from params
RECURSIVE sgld_chain(_, _, _, _)
sgld_chain(sampler, keys, i, params) ==
    IF i > Len(keys) THEN <<>>
    ELSE LET nxt == Mod(params + Dot(sampler.x, sampler.y)
                        + sampler.batch_size + KeyHash(keys[i]))
         IN  <<nxt>> \o sgld_chain(sampler, keys, i + 1, nxt)

run_sampler(sampler, key, nsamples, params) ==
    sgld_chain(sampler, split(key, nsamples), 1, params)

sgld_update(self, mem, key, b, x, y) ==
    IF ~(self.buffer_size >= Len(x))
    THEN [input |-> b, memory |-> mem, out |-> Raise("AssertionError", FALSE)]
    ELSE LET m == Memory_update(self.buffer_size, mem, x, y) IN
         IF Len(m.x) < self.threshold
         THEN [input |-> b, memory |-> m, out |-> ShortCircuitInfo(SGLDInfoFields, b)]
         ELSE LET batch_size_ == IF self.batch_size = -1 THEN Len(m.x) ELSE self.batch_size
                  sampler == build_sgld_sampler(m.x, m.y, batch_size_)
                  samples == run_sampler(sampler, key, self.nsamples, b.params)
              IN  [input |-> b, memory |-> m,
                   out |-> IF self.buffer_size = INF
                           THEN Raise("TypeError", FALSE)   \* x[-inf:]: not an integer slice
                           ELSE Return([params |-> Mean(samples),
                                        samples |-> <<PySliceLast(samples, self.buffer_size)>>,
                                        sampler |-> <<sampler>>],
                                       <<"InfoClass">>, FALSE)]

\* Mutant: the draw is made with a sampler built on the agent's current buffer.
sgld_sample_params_reads_memory(self, mem, key, b) ==
    [input |-> b, memory |-> mem,
     out |-> IF b.sampler = <<>> THEN ReturnParams(b.params)
             ELSE ReturnParams(run_sampler(build_sgld_sampler(mem.x, mem.y, Len(mem.x)),
                                           key, 1, b.params)[1])]

\* Mutant: the current mean is returned also when a sampler handle is stored.
sgld_sample_params_returns_mean(self, mem, key, b) ==
    [input |-> b, memory |-> mem, out |-> ReturnParams(b.params)]

sgld_sample_params(self, mem, key, b) ==
    [input |-> b, memory |-> mem,
     out |-> IF b.sampler = <<>> THEN ReturnParams(b.params)
             ELSE ReturnParams(run_sampler(b.sampler[1], key, 1, b.params)[1])]


(***************************************************************************)
(* The agents and initial beliefs a run starts from.                        *)
(***************************************************************************)
BufferSizes == {0, 1, 2, INF}
Thresholds == {1, 2}
Epochs == {0, 1, 2}
Ensembles == {2}
EnsembleEpochs == {0, 1}
NSamples == {1, 2}
NLast == {0, 1, 2}
SGLDBatchSizes == {-1, 1, 2}
SGLDNLast == {1}

Constructions ==
    {SGDAgent(ne, th, bs) : ne \in Epochs, th \in Thresholds, bs \in BufferSizes}
    \cup {EnsembleAgent(n, ne, th, bs) :
             n \in Ensembles, ne \in EnsembleEpochs, th \in Thresholds, bs \in BufferSizes}
    \cup {LaplaceAgent(th, bs) : th \in Thresholds, bs \in BufferSizes}
    \cup {BlackJaxNutsAgent(ns, nl, bs, th) :
             ns \in NSamples, nl \in NLast, bs \in BufferSizes, th \in Thresholds}
    \cup {SGLDAgent(b, ns, nl, th, bs) :
             b \in SGLDBatchSizes, ns \in NSamples, nl \in SGLDNLast,
             th \in Thresholds, bs \in BufferSizes}

\* The agents whose constructor returned.
Agents == {c.self : c \in {d \in Constructions : d.ok}}

\* The constructor calls that leave the threshold and buffer_size at the
\* defaults of the signature: threshold=1 / buffer_size=jnp.inf (SGD),
\* min_n_samples=1 / buffer_size=jnp.inf (Ensemble), and min_n_samples=1 /
\* buffer_size=0 (Laplace, NUTS, SGLD).
SGDAgent_defaults == {SGDAgent(ne, 1, INF) : ne \in Epochs}
EnsembleAgent_defaults ==
    {EnsembleAgent(n, ne, 1, INF) : n \in Ensembles, ne \in EnsembleEpochs}
LaplaceAgent_defaults == {LaplaceAgent(1, 0)}
BlackJaxNutsAgent_defaults == {BlackJaxNutsAgent(ns, nl, 0, 1) : ns \in NSamples, nl \in NLast}
SGLDAgent_defaults ==
    {SGLDAgent(b, ns, nl, 1, 0) : b \in SGLDBatchSizes, ns \in NSamples, nl \in SGLDNLast}
DefaultConstructions ==
    SGDAgent_defaults \cup EnsembleAgent_defaults \cup LaplaceAgent_defaults
    \cup BlackJaxNutsAgent_defaults \cup SGLDAgent_defaults

\* agent.init_state(...) on the user's initial parameters
InitialBeliefs(self) ==
    CASE self.variant = "SGD" -> {sgd_init_state(p) : p \in Val}
      [] self.variant = "Ensemble" ->
            {ensemble_init_state([e \in 1 .. self.nensembles |->
                                     [baseline |-> Mod(p + e), trainable |-> p]]) :
                p \in Val}
      [] self.variant = "Laplace" ->
            {laplace_init_state(p, <<>>) : p \in Val}
            \cup {laplace_init_state(p, <<1>>) : p \in Val}
      [] self.variant = "NUTS" -> {nuts_init_state(p) : p \in Val}
      [] self.variant = "SGLD" -> {sgld_init_state(p) : p \in Val}

\* agent.update and agent.sample_params, dispatched on the agent's class
agent_update(self, mem, key, b, x, y) ==
    CASE self.variant = "SGD" -> sgd_update(self, mem, key, b, x, y)
      [] self.variant = "Ensemble" -> ensemble_update(self, mem, key, b, x, y)
      [] self.variant = "Laplace" -> laplace_update(self, mem, key, b, x, y)
      [] self.variant = "NUTS" -> nuts_update(self, mem, key, b, x, y)
      [] self.variant = "SGLD" -> sgld_update(self, mem, key, b, x, y)

agent_sample_params(self, mem, key, b) ==
    CASE self.variant = "SGD" -> sgd_sample_params(self, mem, key, b)
      [] self.variant = "Ensemble" -> ensemble_sample_params(self, mem, key, b)
      [] self.variant = "Laplace" -> laplace_sample_params(self, mem, key, b)
      [] self.variant = "NUTS" -> nuts_sample_params(self, mem, key, b)
      [] self.variant = "SGLD" -> sgld_sample_params(self, mem, key, b)

\* The locals of train before any invocation.
NoTrain ==
    [run |-> 0, key |-> <<>>, nsteps |-> 0, keys |-> <<>>, callback |-> [kind |-> "None", n |-> 0],
     initial |-> <<>>, t |-> 0, cb |-> 0, belief |-> <<>>, info |-> <<>>,
     X_train |-> <<>>, fed |-> <<>>, ukeys |-> <<>>, got |-> <<>>, trace |-> <<>>,
     result |-> <<>>]

Init ==
    /\ agent \in Agents
    /\ memory = Memory_init
    /\ appended = <<>>
    /\ belief \in InitialBeliefs(agent)
    /\ call = <<>>
    /\ pc = "idle"
    /\ tr = NoTrain

(***************************************************************************)
(* API calls made directly by a caller that threads the returned belief.    *)
(***************************************************************************)
\* The record of a call: the agent and its Memory as they were when it was
\* made, the arguments, and the outcome.
CallRec(op, self, mem, key, b, x, r) ==
    [op |-> op, self |-> self, mem |-> mem, key |-> key, belief |-> b, x |-> x,
     out |-> r.out, after |-> r.input]

\* Whether the call reached self.memory.update (the precondition assert passed).
Folded(out) == out.kind # "AssertionError"

\* What the caller's statement belief, info = agent.update(key, belief, x, y)
\* leaves behind, r being what update did.
UpdateStep(key, x, r) ==
    /\ memory' = r.memory
    /\ appended' = IF Folded(r.out) THEN appended \o x ELSE appended
    /\ belief' = IF r.out.kind = "return" THEN r.out.belief[1] ELSE belief
    /\ call' = <<CallRec("update", agent, memory, key, belief, x, r)>>
    /\ UNCHANGED <<agent, pc, tr>>

\* What theta = agent.sample_params(key, belief) leaves behind.
SampleStep(key, r) ==
    /\ memory' = r.memory
    /\ call' = <<CallRec("sample_params", agent, memory, key, belief, <<>>, r)>>
    /\ UNCHANGED <<agent, appended, belief, pc, tr>>

SGDUpdate ==
    /\ pc = "idle" /\ agent.variant = "SGD"
    /\ \E key \in RootKeys, x \in Batches :
         /\ Len(appended) + Len(x) <= MaxTotal
         /\ \E r \in {sgd_update(agent, memory, key, belief, x, Labels(x))} :
               UpdateStep(key, x, r)

EnsembleUpdate ==
    /\ pc = "idle" /\ agent.variant = "Ensemble"
    /\ \E key \in RootKeys, x \in Batches :
         /\ Len(appended) + Len(x) <= MaxTotal
         /\ \E r \in {ensemble_update(agent, memory, key, belief, x, Labels(x))} :
               UpdateStep(key, x, r)

LaplaceUpdate ==
    /\ pc = "idle" /\ agent.variant = "Laplace"
    /\ \E key \in RootKeys, x \in Batches :
         /\ Len(appended) + Len(x) <= MaxTotal
         /\ \E r \in {laplace_update(agent, memory, key, belief, x, Labels(x))} :
               UpdateStep(key, x, r)

NutsUpdate ==
    /\ pc = "idle" /\ agent.variant = "NUTS"
    /\ \E key \in RootKeys, x \in Batches :
         /\ Len(appended) + Len(x) <= MaxTotal
         /\ \E r \in {nuts_update(agent, memory, key, belief, x, Labels(x))} :
               UpdateStep(key, x, r)

SGLDUpdate ==
    /\ pc = "idle" /\ agent.variant = "SGLD"
    /\ \E key \in RootKeys, x \in Batches :
         /\ Len(appended) + Len(x) <= MaxTotal
         /\ \E r \in {sgld_update(agent, memory, key, belief, x, Labels(x))} :
               UpdateStep(key, x, r)

SGDSampleParams ==
    /\ pc = "idle" /\ agent.variant = "SGD"
    /\ \E key \in RootKeys :
         \E r \in {sgd_sample_params(agent, memory, key, belief)} : SampleStep(key, r)

EnsembleSampleParams ==
    /\ pc = "idle" /\ agent.variant = "Ensemble"
    /\ \E key \in RootKeys :
         \E r \in {ensemble_sample_params(agent, memory, key, belief)} : SampleStep(key, r)

LaplaceSampleParams ==
    /\ pc = "idle" /\ agent.variant = "Laplace"
    /\ \E key \in RootKeys :
         \E r \in {laplace_sample_params(agent, memory, key, belief)} : SampleStep(key, r)

NutsSampleParams ==
    /\ pc = "idle" /\ agent.variant = "NUTS"
    /\ \E key \in RootKeys :
         \E r \in {nuts_sample_params(agent, memory, key, belief)} : SampleStep(key, r)

SGLDSampleParams ==
    /\ pc = "idle" /\ agent.variant = "SGLD"
    /\ \E key \in RootKeys :
         \E r \in {sgld_sample_params(agent, memory, key, belief)} : SampleStep(key, r)

Next ==
    \/ SGDUpdate
    \/ EnsembleUpdate
    \/ LaplaceUpdate
    \/ NutsUpdate
    \/ SGLDUpdate
    \/ SGDSampleParams
    \/ EnsembleSampleParams
    \/ LaplaceSampleParams
    \/ NutsSampleParams
    \/ SGLDSampleParams

Spec == Init /\ [][Next]_vars

(***************************************************************************)
(* train (seql/utils.py).  pc is the position in the loop; tr holds the     *)
(* locals (key, belief, keys, t, X_train, info), the events so far (trace), *)
(* the beliefs and keys handed to agent.update (fed, ukeys), the beliefs it *)
(* returned (got) and which invocation with this agent it is (run).        *)
(* A caller may invoke train again, with the same agent, once it returned.  *)
(***************************************************************************)
\* callback argument: None, one callable, or a list of n callables
Callbacks ==
    {[kind |-> "None", n |-> 0], [kind |-> "callable", n |-> 1]}
    \cup {[kind |-> "list", n |-> n] : n \in 0 .. 2}

\* train invocations made with one agent instance: a first and a second one
Invocations == {1, 2}

\* The batches env.get_data hands out.
EnvBatches == {<<>>, <<1>>, <<2, 1>>}

\* if callback: (None and the empty list are falsy)
callback_truthy(callback) ==
    callback.kind = "callable" \/ (callback.kind = "list" /\ callback.n > 0)

\* Length of callback_list: [callback] unless callback is a list already.
\* Mutant: a single callable is not wrapped into a list of one.
callback_list_unwrapped(callback) == IF callback.kind = "list" THEN callback.n ELSE 0
callback_list(callback) == IF callback.kind = "list" THEN callback.n ELSE 1

\* How many callbacks the round invokes.
ncallbacks(callback) == IF callback_truthy(callback) THEN callback_list(callback) ELSE 0

\* rewards = []; belief = initial_belief_state; keys = random.split(key, nsteps)
TrainEnter ==
    /\ \E key \in RootKeys, nsteps \in 0 .. MaxSteps, callback \in Callbacks :
         tr' = [NoTrain EXCEPT !.run = tr.run + 1, !.key = key, !.nsteps = nsteps,
                               !.keys = split(key, nsteps),
                               !.callback = callback, !.initial = <<belief>>,
                               !.belief = <<belief>>]
    /\ pc' = "loop"
    /\ UNCHANGED <<agent, memory, appended, belief, call>>

\* train(key, initial_belief_state, agent, env, nsteps, ..., callback) with a
\* newly constructed agent
TrainCall == pc = "idle" /\ TrainEnter

\* train called once more with the agent instance of the invocation that
\* returned, as the demos do with an agent registered in two dictionaries
TrainAgain == pc = "done" /\ tr.run + 1 \in Invocations /\ TrainEnter

\* for t, rng_key in enumerate(keys): X_train, Y_train = env.get_data(t)
\* The environment hands out a batch, or raises; train has no handler, so an
\* exception leaves train.  The event records whether get_data returned.
TrainGetData ==
    /\ pc = "loop"
    /\ tr.t < tr.nsteps
    /\ \/ /\ \E X \in EnvBatches :
               /\ Len(appended) + Len(X) <= MaxTotal
               /\ tr' = [tr EXCEPT !.X_train = X,
                                   !.trace = Append(@, <<"get_data", tr.t, X, TRUE>>)]
          /\ pc' = "update"
       \/ /\ tr' = [tr EXCEPT !.trace = Append(@, <<"get_data", tr.t, <<>>, FALSE>>)]
          /\ pc' = "raised"
    /\ UNCHANGED <<agent, memory, appended, belief, call>>

\* The loop goes on to round t + 1.
NextRound(r) == [r EXCEPT !.t = @ + 1, !.cb = 0]

\* update_key, joint_key = random.split(rng_key, 2)
\* belief, info = agent.update(update_key, belief, X_train, Y_train)
\* with b the belief and update_key the key handed to agent.update, and
\* on_raise where control is after an exception of agent.update
TrainUpdateWith(b, update_key, on_raise) ==
    /\ pc = "update"
    /\ \E r \in {agent_update(agent, memory, update_key, b, tr.X_train,
                              Labels(tr.X_train))} :
         /\ memory' = r.memory
         /\ appended' = IF Folded(r.out) THEN appended \o tr.X_train ELSE appended
         /\ call' = <<CallRec("update", agent, memory, update_key, b, tr.X_train, r)>>
         /\ IF r.out.kind = "return"
            THEN \E n \in {[tr EXCEPT !.belief = r.out.belief, !.info = r.out.info,
                                      !.fed = Append(@, b),
                                      !.ukeys = Append(@, update_key),
                                      !.got = Append(@, r.out.belief[1]),
                                      !.trace = Append(@, <<"update", tr.t, tr.X_train,
                                                            r.out.info>>)]} :
                    IF ncallbacks(tr.callback) = 0
                    THEN tr' = NextRound(n) /\ pc' = "loop"
                    ELSE tr' = n /\ pc' = "callbacks"
            ELSE /\ tr' = [tr EXCEPT !.fed = Append(@, b),
                                     !.ukeys = Append(@, update_key),
                                     !.trace = Append(@, <<"update", tr.t, tr.X_train,
                                                           <<>>>>)]
                 /\ pc' = on_raise
    /\ UNCHANGED <<agent, belief>>

\* The key of round t's update: the first half of round t's key.
round_update_key == split(tr.keys[tr.t + 1], 2)[1]

\* Mutant: every round updates from the initial belief.
TrainUpdate_unthreaded == TrainUpdateWith(tr.initial[1], round_update_key, "raised")
\* Mutant: an exception of agent.update is caught and the round is tried again.
TrainUpdate_retries == TrainUpdateWith(tr.belief[1], round_update_key, "loop")
\* Mutant: every round's update gets the key train was called with.
TrainUpdate_parent_key == TrainUpdateWith(tr.belief[1], tr.key, "raised")
TrainUpdate == TrainUpdateWith(tr.belief[1], round_update_key, "raised")

\* for f in callback_list: f(agent=agent, env=env, belief=belief, info=info,
\*                           X_train=X_train, Y_train=Y_train, t=t)
TrainCallback ==
    /\ pc = "callbacks"
    /\ tr.cb < ncallbacks(tr.callback)
    /\ \E n \in {[tr EXCEPT !.cb = @ + 1,
                            !.trace = Append(@, <<"callback", tr.t, tr.cb, tr.belief[1],
                                                  tr.info, tr.X_train>>)]} :
         IF n.cb = ncallbacks(tr.callback)
         THEN tr' = NextRound(n) /\ pc' = "loop"
         ELSE tr' = n /\ pc' = "callbacks"
    /\ UNCHANGED <<agent, memory, appended, belief, call>>

\* return belief, rewards
TrainReturn ==
    /\ pc = "loop"
    /\ tr.t = tr.nsteps
    /\ tr' = [tr EXCEPT !.result = tr.belief]
    /\ belief' = tr.belief[1]
    /\ pc' = "done"
    /\ UNCHANGED <<agent, memory, appended, call>>

NextTrain ==
    \/ TrainCall
    \/ TrainGetData
    \/ TrainUpdate
    \/ TrainCallback
    \/ TrainReturn

SpecTrain == Init /\ [][NextTrain]_vars

\* train invocations that may share an agent instance
NextRetrain ==
    \/ NextTrain
    \/ TrainAgain

SpecRetrain == Init /\ [][NextRetrain]_vars


(***************************************************************************)
(* Properties of the agents' update and sample_params.                      *)
(***************************************************************************)
LastCall == call[1]
IsUpdate == call # <<>> /\ LastCall.op = "update"
IsSampleParams == call # <<>> /\ LastCall.op = "sample_params"
\* The last call was an update that folded its batch and found fewer retained
\* samples than the threshold.
ShortCircuited == IsUpdate /\ Folded(LastCall.out) /\ Len(memory.x) < agent.threshold
\* The last call was an update that went on to the inference step.
FullUpdate == IsUpdate /\ Folded(LastCall.out) /\ Len(memory.x) >= agent.threshold
FiniteCapacity(self) == self.buffer_size > 0 /\ self.buffer_size < INF

\* C1: an update whose retained sample count after folding the batch is below
\* the threshold returns a pair (belief, info) and raises nothing, for every variant.
C1_InsufficientDataReturns ==
    ShortCircuited => LastCall.out.kind = "return" /\ LastCall.out.belief # <<>>

\* C2: update on an agent with an empty buffer and a batch smaller than the
\* threshold warns "There should be more data." and returns the belief it was given.
C2_SmallBatchReturnsInputBelief ==
    (IsUpdate /\ LastCall.mem = Memory_init /\ Len(LastCall.x) < agent.threshold)
        => /\ LastCall.out.kind = "return"
           /\ LastCall.out.warned
           /\ LastCall.out.belief = <<LastCall.belief>>

\* C3: when every batch fed through update fits the buffer, the retained count is
\* min(total appended, buffer_size) and the retained samples are the most
\* recently appended ones, in arrival order, inputs and labels alike.
C3_MemoryFifo ==
    (agent.buffer_size # 0 \/ appended = <<>>)
        => /\ Len(memory.x) = IF Len(appended) < agent.buffer_size
                              THEN Len(appended) ELSE agent.buffer_size
           /\ memory.x = SubSeq(appended, Len(appended) - Len(memory.x) + 1, Len(appended))
           /\ memory.y = Labels(memory.x)

\* C3 witness: an update has evicted the oldest sample of a full finite buffer.
C3_Witness ==
    /\ IsUpdate /\ FiniteCapacity(agent)
    /\ Len(appended) > agent.buffer_size
    /\ Len(memory.x) = agent.buffer_size
    /\ memory.x # SubSeq(appended, 1, agent.buffer_size)

\* C6: with a finite buffer capacity, an update whose batch is larger than
\* buffer_size fails with an assertion error and leaves Memory as it was.
C6_OversizeBatchFailsLoudly ==
    (IsUpdate /\ FiniteCapacity(agent) /\ Len(LastCall.x) > agent.buffer_size)
        => LastCall.out.kind = "AssertionError" /\ memory = LastCall.mem

\* The same update call made once more, right after the last one.
SecondCall ==
    agent_update(agent, memory, LastCall.key, LastCall.belief, LastCall.x,
                 Labels(LastCall.x))

\* C7 as stated: a second update with identical key, belief and batch on the
\* same agent returns what the first returned.
C7_RepeatedUpdateSameResult ==
    IsUpdate => SecondCall.out = LastCall.out

\* C7 amended: the repeated update has the same outcome whenever it works on the
\* same retained accumulation as the first; Memory is the only hidden state.
C7_RepeatedUpdateSameResultOnSameMemory ==
    (IsUpdate /\ SecondCall.memory = memory) => SecondCall.out = LastCall.out

\* C7 witness: a full update on a non-empty batch whose repetition sees the
\* same accumulation (the batch fills the buffer).
C7_Witness ==
    /\ FullUpdate /\ LastCall.out.kind = "return" /\ ~LastCall.out.warned
    /\ LastCall.x # <<>>
    /\ LastCall.mem # memory
    /\ SecondCall.memory = memory

\* Memories an agent may hold when sample_params is called.
SomeMemories ==
    {Memory_init, memory} \cup {[x |-> b, y |-> Labels(b)] : b \in Batches}

\* C8: sample_params is a function of (key, belief): the result does not depend
\* on the agent's Memory, and the call changes neither Memory nor the belief.
C8_SampleParamsPure ==
    IsSampleParams =>
        /\ \A mem \in SomeMemories :
              LET r == agent_sample_params(agent, mem, LastCall.key, LastCall.belief)
              IN  r.out = LastCall.out /\ r.memory = mem
        /\ memory = LastCall.mem
        /\ belief = LastCall.belief
        /\ agent = LastCall.self

\* C8 witness: sample_params returned parameters while the Memory held samples.
C8_Witness ==
    /\ IsSampleParams /\ LastCall.out.kind = "return"
    /\ memory.x # <<>>
    /\ agent.variant \in {"SGLD", "NUTS"}

\* C9: in the belief an Ensemble update returns, every member's baseline is the
\* member's baseline of the input belief.
C9_BaselineFrozen ==
    (IsUpdate /\ agent.variant = "Ensemble" /\ LastCall.out.kind = "return")
        => \A e \in 1 .. Len(LastCall.belief.params) :
              LastCall.out.belief[1].params[e].baseline
                  = LastCall.belief.params[e].baseline

\* C9 witness: an Ensemble update of at least one epoch changed a member's
\* trainable part and its optimizer state for the baseline.
C9_Witness ==
    /\ FullUpdate /\ agent.variant = "Ensemble" /\ LastCall.out.kind = "return"
    /\ agent.nepochs >= 1
    /\ \E e \in 1 .. agent.nensembles :
          /\ LastCall.out.belief[1].params[e].trainable # LastCall.belief.params[e].trainable
          /\ LastCall.out.belief[1].opt_states[e].baseline
                 # LastCall.belief.opt_states[e].baseline

\* C10 as stated: a short-circuited update leaves all agent state, the contents
\* of Memory included, as it was before the call.
C10_ShortCircuitNoSideEffect ==
    ShortCircuited => memory = LastCall.mem /\ agent = LastCall.self

\* C10 amended: a short-circuited update changes Memory only, which has folded
\* the batch in; the agent's configuration is unchanged and a belief handed
\* back is the input belief.
C10_ShortCircuitOnlyFoldsBatch ==
    ShortCircuited =>
        /\ memory = Memory_update(agent.buffer_size, LastCall.mem, LastCall.x,
                                  Labels(LastCall.x))
        /\ agent = LastCall.self
        /\ LastCall.out.warned
        /\ LastCall.out.kind = "return" => LastCall.out.belief = <<LastCall.belief>>

\* C10 witness: a short-circuited update that returned and added a sample.
C10_Witness ==
    /\ ShortCircuited /\ LastCall.out.kind = "return"
    /\ LastCall.x # <<>> /\ memory # LastCall.mem

(***************************************************************************)
(* Properties of train.                                                     *)
(***************************************************************************)
\* C4: the first update gets initial_belief_state, every later update gets the
\* belief the previous update returned, and train returns the belief of the
\* last update (the initial belief when nsteps = 0) after exactly nsteps updates.
C4_BeliefThreaded ==
    /\ Len(tr.fed) >= 1 => tr.fed[1] = tr.initial[1]
    /\ \A i \in 2 .. Len(tr.fed) : tr.fed[i] = tr.got[i - 1]
    /\ pc = "done" =>
          /\ Len(tr.fed) = tr.nsteps /\ Len(tr.got) = tr.nsteps
          /\ tr.result = IF tr.nsteps = 0 THEN tr.initial ELSE <<tr.got[tr.nsteps]>>

\* C4 witness: train returned after MaxSteps rounds with a belief that differs
\* from the initial one and from the first round's.
C4_Witness ==
    /\ pc = "done" /\ tr.nsteps = MaxSteps
    /\ tr.result # tr.initial
    /\ tr.got[1] # tr.initial[1]
    /\ tr.result[1] # tr.got[1]

\* The events of round t with n registered callbacks, and of rounds t .. nsteps-1.
RoundEvents(t, n) ==
    <<<<"get_data", t>>, <<"update", t>>>> \o [i \in 1 .. n |-> <<"callback", t, i - 1>>]
RECURSIVE Schedule(_, _, _)
Schedule(t, nsteps, n) ==
    IF t >= nsteps THEN <<>> ELSE RoundEvents(t, n) \o Schedule(t + 1, nsteps, n)

\* What an event of the trace is: its kind, its round, and a callback's position.
EventId(e) == IF e[1] = "callback" THEN <<e[1], e[2], e[3]>> ELSE <<e[1], e[2]>>
\* The get_data and update events of round t in the trace
EventOf(kind, t) == CHOOSE e \in {tr.trace[j] : j \in 1 .. Len(tr.trace)} :
                        e[1] = kind /\ e[2] = t

\* C5: the events of train are, in this order and each once: for t = 0 .. nsteps-1,
\* get_data(t), update on that batch, then every registered callback in
\* registration order with the round's belief, info, batch and t.
C5_RoundOrder ==
    LET expected == Schedule(0, tr.nsteps, tr.callback.n)
        ids == [j \in 1 .. Len(tr.trace) |-> EventId(tr.trace[j])]
    IN  /\ Len(ids) <= Len(expected)
        /\ ids = SubSeq(expected, 1, Len(ids))
        /\ pc = "done" => ids = expected
        /\ \A j \in 1 .. Len(tr.trace) :
              LET e == tr.trace[j] IN
              /\ e[1] = "update" => e[3] = EventOf("get_data", e[2])[3]
              /\ e[1] = "callback" =>
                    /\ e[4] = tr.got[e[2] + 1]
                    /\ e[5] = EventOf("update", e[2])[4]
                    /\ e[6] = EventOf("get_data", e[2])[3]

\* C5 witness: train returned after MaxSteps rounds that each invoked two callbacks.
C5_Witness ==
    /\ pc = "done" /\ tr.nsteps = MaxSteps /\ tr.callback.n = 2
    /\ Len(tr.trace) = 4 * MaxSteps
    /\ tr.got[1] # tr.got[2]

\* Whether the event is a get_data or an update that raised.
Failed(e) == (e[1] = "get_data" /\ ~e[4]) \/ (e[1] = "update" /\ e[4] = <<>>)

\* C11: an exception of agent.update or env.get_data in round t ends train at
\* once: the failed step is the last event, it is not repeated, round t invokes
\* no callback and no event of a later round takes place.
C11_RaiseStopsTrain ==
    LET n == Len(tr.trace) IN
    /\ \A j \in 1 .. n : Failed(tr.trace[j]) => j = n /\ pc = "raised"
    /\ pc = "raised" =>
          /\ n >= 1 /\ Failed(tr.trace[n]) /\ tr.trace[n][2] = tr.t
          /\ \A j \in 1 .. n :
                /\ tr.trace[j][2] <= tr.t
                /\ tr.trace[j][1] = "callback" => tr.trace[j][2] < tr.t
                /\ (j < n /\ tr.trace[j][2] = tr.t) => tr.trace[j][1] # tr.trace[n][1]
          /\ tr.result = <<>>

\* C11 witness: agent.update raised in the first of several rounds of a train
\* invocation that has callbacks registered.
C11_Witness ==
    /\ pc = "raised" /\ tr.t = 0 /\ tr.nsteps = MaxSteps /\ tr.callback.n >= 1
    /\ tr.trace[Len(tr.trace)][1] = "update"

(***************************************************************************)
(* Further properties of update and sample_params.                          *)
(***************************************************************************)
\* C12: update leaves the belief it was handed as it was: after the call the
\* input belief has the field values it had before, whatever belief is returned.
C12_InputBeliefUntouched ==
    IsUpdate => LastCall.after = LastCall.belief

\* C12 witness: a full update returned a belief that differs from its input.
C12_Witness ==
    /\ FullUpdate /\ LastCall.out.kind = "return"
    /\ LastCall.out.belief[1] # LastCall.belief
    /\ LastCall.after = LastCall.belief

\* C13: the buffer the first update of a train invocation works on holds only
\* samples that this invocation's get_data delivered, also when the agent
\* instance was driven by an earlier invocation.
C13_MemoryOwnedByInvocation ==
    (pc # "idle" /\ Len(tr.fed) = 1 /\ Folded(LastCall.out))
        => /\ Len(memory.x) <= Len(LastCall.x)
           /\ memory.x = Newest(LastCall.x, Len(memory.x))

\* The parameter values retained in belief.samples (none while it is None).
SamplePool(self, b) ==
    IF b.samples = <<>> THEN {}
    ELSE IF self.variant = "NUTS"
         THEN {b.samples[1][i].position : i \in 1 .. Len(b.samples[1])}
         ELSE {b.samples[1][i] : i \in 1 .. Len(b.samples[1])}

\* Other contents belief.samples could have.
OtherSamples(self) ==
    IF self.variant = "NUTS"
    THEN {<<>>} \cup {<<<<nuts_new_state(p, e)>>>> : p \in Val, e \in Val}
    ELSE {<<>>} \cup {<<<<p>>>> : p \in Val}

SamplingAgent == agent.variant \in {"NUTS", "SGLD"}

\* C14 as stated: sample_params of NUTS and SGLD returns one of the samples
\* retained in belief.samples.
C14_SampleFromPool ==
    (IsSampleParams /\ SamplingAgent /\ LastCall.out.kind = "return"
        /\ LastCall.belief.samples # <<>>)
        => LastCall.out.params[1] \in SamplePool(agent, LastCall.belief)

\* C14 amended: sample_params of NUTS and SGLD does not read belief.samples;
\* its result is the same whatever the retained pool holds.
C14_SampleIgnoresPool ==
    (IsSampleParams /\ SamplingAgent) =>
        \A s \in OtherSamples(agent) :
            agent_sample_params(agent, memory, LastCall.key,
                                [LastCall.belief EXCEPT !.samples = s]).out
                = LastCall.out

\* C14 witness: a value was returned that is not among the retained samples.
C14_Witness ==
    /\ IsSampleParams /\ SamplingAgent /\ LastCall.out.kind = "return"
    /\ LastCall.belief.samples # <<>>
    /\ LastCall.out.params[1] \notin SamplePool(agent, LastCall.belief)

C16_SgldSampleParams ==
    (IsSampleParams /\ agent.variant = "SGLD") =>
        IF LastCall.belief.sampler = <<>>
        THEN LastCall.out = ReturnParams(LastCall.belief.params)
        ELSE LET theta == run_sampler(LastCall.belief.sampler[1], LastCall.key, 1,
                                      LastCall.belief.params)
             IN  Len(theta) = 1 /\ LastCall.out = ReturnParams(theta[1])

\* C16 witness: the stored handle drew a value other than the current mean.
C16_Witness ==
    /\ IsSampleParams /\ agent.variant = "SGLD"
    /\ LastCall.belief.sampler # <<>>
    /\ LastCall.out.kind = "return"
    /\ LastCall.out.params[1] # LastCall.belief.params

\* The states the last NUTS update drew: nsamples kernel steps on the
\* accumulation, started from the state at the input belief's position.
NutsDraws ==
    LET ks == split(LastCall.key, 2)
        position == LastCall.belief.state.position
        state == nuts_new_state(position, partial_potential_fn(position, memory.x, memory.y))
        w == stan_warmup_run(ks[1], state, memory.x, memory.y)
    IN  inference_loop(ks[2], w.step_size, w.inverse_mass_matrix, state,
                       agent.nsamples, memory.x, memory.y)

\* C17: after a full NUTS update the new position is the mean of the nsamples
\* drawn positions and the retained window is the most recent nlast draws in
\* draw order, never more than nlast of them, for every nlast >= 0.
C17_NutsMeanAndWindow ==
    (FullUpdate /\ agent.variant = "NUTS" /\ LastCall.out.kind = "return") =>
        LET draws == NutsDraws
            new == LastCall.out.belief[1]
        IN  /\ Len(draws) = agent.nsamples
            /\ new.state.position = Mean([i \in 1 .. Len(draws) |-> draws[i].position])
            /\ new.samples = <<Newest(draws, agent.nlast)>>
            /\ Len(new.samples[1]) <= agent.nlast

\* C18: with buffer_size = 0 the accumulation an update works on is exactly the
\* incoming batch: Memory holds that batch afterwards, and the Laplace
\* inference step (or its threshold test) sees this round's samples only.
C18_DisabledBufferKeepsNoHistory ==
    (IsUpdate /\ Folded(LastCall.out) /\ agent.buffer_size = 0) =>
        /\ memory = [x |-> LastCall.x, y |-> Labels(LastCall.x)]
        /\ agent.variant = "Laplace" =>
              LastCall.out = IF Len(LastCall.x) < agent.threshold
                             THEN Return(LastCall.belief, <<"None">>, TRUE)
                             ELSE laplace_infer(agent, LastCall.belief, LastCall.x,
                                                Labels(LastCall.x))

\* C18 witness: a Laplace agent with buffer_size = 0 ran its inference step in
\* a round that followed a round with other samples.
C18_Witness ==
    /\ FullUpdate /\ agent.variant = "Laplace" /\ agent.buffer_size = 0
    /\ LastCall.mem.x # <<>> /\ LastCall.x # <<>>
    /\ LastCall.mem.x # LastCall.x
    /\ LastCall.out.kind = "return"

(***************************************************************************)
(* Further properties of train.                                             *)
(***************************************************************************)
\* The reserved half (joint_key) of every round key of the invocation.
ReservedKeys == {split(tr.keys[k], 2)[2] : k \in 1 .. Len(tr.keys)}
RoundKeys == {tr.keys[k] : k \in 1 .. Len(tr.keys)}

\* C19: train splits its key once into nsteps round keys, round t's update gets
\* the update half of round t's key, and no update gets the parent key, a round
\* key, a reserved key or the key of another update.
C19_KeysDisjoint ==
    pc # "idle" =>
        /\ tr.keys = split(tr.key, tr.nsteps)
        /\ \A i \in 1 .. Len(tr.ukeys) :
              /\ tr.ukeys[i] = split(tr.keys[i], 2)[1]
              /\ tr.ukeys[i] \notin ({tr.key} \cup RoundKeys \cup ReservedKeys)
              /\ \A j \in 1 .. Len(tr.ukeys) : i # j => tr.ukeys[i] # tr.ukeys[j]

\* C19 witness: train returned after MaxSteps updates, each with its own key.
C19_Witness ==
    /\ pc = "done" /\ tr.nsteps = MaxSteps /\ MaxSteps >= 2
    /\ Len(tr.ukeys) = MaxSteps
    /\ tr.ukeys[1] # tr.ukeys[2]

\* C20: sample_params returns a parameter value for every belief an agent
\* hands out: the belief of init_state, a belief returned unchanged by a
\* short-circuited update, and the beliefs of full updates.
C20_SampleParamsTotal ==
    IsSampleParams => LastCall.out.kind = "return" /\ LastCall.out.params # <<>>

(***************************************************************************)
(* Behaviour of the variants.                                               *)
(***************************************************************************)
\* The update the last call would have been on an empty Memory with everything
\* the agent retains as its batch: the inference step on all retained samples.
InferenceOnRetained ==
    agent_update(agent, Memory_init, LastCall.key, LastCall.belief, memory.x, memory.y).out

\* C21: with threshold <= buffer_size, an update short-circuits (warns and
\* returns the belief it was given) exactly while fewer than threshold samples
\* have been handed over in total, short-circuited rounds included; every other
\* update performs the inference step on all retained samples.
C21_ShortCircuitedBatchesCount ==
    (IsUpdate /\ Folded(LastCall.out) /\ agent.threshold <= agent.buffer_size) =>
        IF Len(appended) < agent.threshold
        THEN /\ LastCall.out.kind = "return"
             /\ LastCall.out.warned
             /\ LastCall.out.belief = <<LastCall.belief>>
        ELSE /\ ~LastCall.out.warned
             /\ LastCall.out = InferenceOnRetained

\* C22: a NUTS agent whose buffer_size is 0 (the default, and what infinity is
\* normalised to) accepts a non-empty batch of any size: its update does not
\* fail the buffer-size precondition.
C22_NutsUnboundedBufferAcceptsBatch ==
    (IsUpdate /\ agent.variant = "NUTS" /\ agent.buffer_size = 0 /\ LastCall.x # <<>>) =>
        LastCall.out.kind # "AssertionError"

\* C23: every variant can be constructed with buffer_size and the minimum-sample
\* threshold left at their defaults: the constructor's precondition passes
\* (stated for the variant of the agent under run).
C23_DefaultsConstructible ==
    \A c \in DefaultConstructions : c.self.variant = agent.variant => c.ok

\* C24: no constructed agent short-circuits forever: a threshold above a finite,
\* enabled buffer_size is rejected at construction, so an agent whose buffer is
\* full (it can never retain more) does not short-circuit.
C24_NoPerpetualShortCircuit ==
    /\ FiniteCapacity(agent) => agent.threshold <= agent.buffer_size
    /\ (IsUpdate /\ FiniteCapacity(agent) /\ Len(memory.x) = agent.buffer_size) =>
           ~LastCall.out.warned

\* The draws of the last SGLD update: the chain the sampler built on the
\* retained buffer runs from the incoming parameters.
SgldDraws ==
    LET batch_size_ == IF agent.batch_size = -1 THEN Len(memory.x) ELSE agent.batch_size
    IN  run_sampler(build_sgld_sampler(memory.x, memory.y, batch_size_),
                    LastCall.key, agent.nsamples, LastCall.belief.params)

\* C25: after an SGLD update that performed the inference step, belief.params is
\* the mean of all nsamples draws and belief.samples holds the most recent
\* min(nsamples, nlast) draws, whatever the buffer_size.
C25_SgldMeanAndWindow ==
    (FullUpdate /\ agent.variant = "SGLD" /\ LastCall.out.kind = "return") =>
        /\ LastCall.out.belief[1].params = Mean(SgldDraws)
        /\ LastCall.out.belief[1].samples = <<Newest(SgldDraws, agent.nlast)>>

\* One optimizer step on the retained buffer from the pair s = (params, opt_state).
SgdStepOnBuffer(s) ==
    LET vg == value_and_grad_fn(s.params, memory.x, memory.y)
        ou == optimizer_update(vg.grads, s.opt_state)
    IN  [params |-> apply_updates(s.params, ou.updates), opt_state |-> ou.opt_state]
\* The pairs after 0, 1, ..., nepochs steps, starting from the incoming belief.
SgdTrajectory ==
    LET st[i \in 0 .. agent.nepochs] ==
            IF i = 0
            THEN [params |-> LastCall.belief.params, opt_state |-> LastCall.belief.opt_state]
            ELSE SgdStepOnBuffer(st[i - 1])
    IN  st

\* C26: an SGD update that performs the inference step with nepochs >= 1 makes
\* exactly nepochs optimizer steps, each on the whole retained buffer, starting
\* from belief.params and belief.opt_state; it returns the parameters and
\* optimizer state after the last step and Info carries the loss computed in
\* the last step.
C26_SgdEpochsOnBuffer ==
    (FullUpdate /\ agent.variant = "SGD" /\ agent.nepochs >= 1) =>
        /\ LastCall.out.kind = "return"
        /\ LastCall.out.belief = <<SgdTrajectory[agent.nepochs]>>
        /\ LastCall.out.info =
              <<"Info", loss_fn(SgdTrajectory[agent.nepochs - 1].params, memory.x, memory.y)>>

\* C26 witness: a two-epoch SGD update on a buffer that holds more than the
\* incoming batch, whose two steps each moved the parameters.
C26_Witness ==
    /\ FullUpdate /\ agent.variant = "SGD" /\ agent.nepochs = 2
    /\ LastCall.mem.x # <<>> /\ LastCall.x # <<>>
    /\ Len(memory.x) > Len(LastCall.x)
    /\ SgdTrajectory[1].params # SgdTrajectory[0].params
    /\ SgdTrajectory[2].params # SgdTrajectory[1].params

\* The keys of the members of the last Ensemble update and, for member e, the
\* index vector drawn with its key over the n retained samples.
MemberKeys == split(LastCall.key, agent.nensembles)
MemberIndices(e) == bootstrap_sampling(MemberKeys[e], Len(memory.x))
\* The resampled inputs of member e, and what training member e on them, with
\* the labels that belong to them, gives.
MemberInputs(e) == take_fn(memory.x, MemberIndices(e))
MemberTrained(e) ==
    With(MemberInputs(e), LAMBDA xs :
         ensemble_train(agent.nepochs, LastCall.belief.params[e],
                        LastCall.belief.opt_states[e], xs, Labels(xs)))

\* C27: in an Ensemble update that performs the inference step on n retained
\* samples, every member is trained on its own bootstrap resample: n indices,
\* each in 0..n-1, the i-th drawn with the i-th key split from the member's key,
\* the members' keys being distinct splits of the update key, and the same
\* indices select the inputs and the labels, so each resampled input keeps its
\* label.
C27_BootstrapPerMember ==
    (FullUpdate /\ agent.variant = "Ensemble" /\ LastCall.out.kind = "return") =>
        LET n == Len(memory.x) IN
        /\ \A e, f \in 1 .. agent.nensembles : e # f => MemberKeys[e] # MemberKeys[f]
        /\ \A e \in 1 .. agent.nensembles :
              /\ \E idx \in {MemberIndices(e)} :
                    /\ Len(idx) = n
                    /\ \A i \in 1 .. n :
                          /\ idx[i] \in 0 .. n - 1
                          /\ idx[i] = randint(split(MemberKeys[e], n)[i], 0, n)
              /\ \E trained \in {MemberTrained(e)} :
                    /\ LastCall.out.belief[1].params[e] = trained.params
                    /\ LastCall.out.belief[1].opt_states[e] = trained.opt_state

\* C27 witness: an Ensemble update that trained (nepochs >= 1) on a buffer with
\* two different samples, where two members drew different index vectors and
\* one of them drew a sample twice.
C27_Witness ==
    /\ FullUpdate /\ agent.variant = "Ensemble" /\ LastCall.out.kind = "return"
    /\ agent.nepochs >= 1
    /\ Len(memory.x) >= 2 /\ memory.x[1] # memory.x[2]
    /\ \E e, f \in 1 .. agent.nensembles :
          /\ MemberIndices(e) # MemberIndices(f)
          /\ MemberIndices(e)[1] = MemberIndices(e)[2]

\* The states a one-draw inference loop visits from the state built at the
\* position and cached potential energy of the belief handed to the last call,
\* with the belief's step_size and inverse_mass_matrix, were (x, y) the data.
OneDrawFromBelief(x, y) ==
    LET b == LastCall.belief IN
    inference_loop(LastCall.key, b.step_size, b.inverse_mass_matrix[1],
                   nuts_new_state(b.state.position, b.state.potential_energy[1]), 1, x, y)

\* C28: NUTS sample_params on a belief that carries a potential energy and a
\* mass matrix performs exactly one sampler step from belief.state.position
\* with the belief's step_size and inverse_mass_matrix and the cached potential
\* energy; the value returned is the same for any data and any Memory, and
\* Memory is left as it was.
C28_NutsSampleOneStep ==
    (IsSampleParams /\ agent.variant = "NUTS"
        /\ LastCall.belief.state.potential_energy # <<>>
        /\ LastCall.belief.inverse_mass_matrix # <<>>) =>
        /\ LastCall.out.kind = "return"
        /\ \A x \in Batches :
              /\ Len(OneDrawFromBelief(x, Labels(x))) = 1
              /\ LastCall.out.params = <<OneDrawFromBelief(x, Labels(x))[1].position>>
        /\ \A m \in SomeMemories :
              nuts_sample_params(agent, m, LastCall.key, LastCall.belief).out = LastCall.out
        /\ memory = LastCall.mem

\* C28 witness: a NUTS agent that holds data drew a value that is not the
\* position it started from.
C28_Witness ==
    /\ IsSampleParams /\ agent.variant = "NUTS" /\ LastCall.out.kind = "return"
    /\ memory.x # <<>>
    /\ LastCall.out.params # <<LastCall.belief.state.position>>

\* The state the last NUTS update built at the incoming position on the
\* retained data, and what its warm-up, run with the first key split from the
\* update key, gave back.
NutsStartState ==
    nuts_new_state(LastCall.belief.state.position,
                   partial_potential_fn(LastCall.belief.state.position, memory.x, memory.y))
NutsWarmup == stan_warmup_run(split(LastCall.key, 2)[1], NutsStartState, memory.x, memory.y)

\* C29: in a NUTS update that performs the inference step, warm-up and sampling
\* both start from the state built at the incoming belief's position; the state
\* the warm-up ended in is not used; the warm-up gives step_size and
\* inverse_mass_matrix to the sampling phase and to the new belief; the two
\* phases use the two different keys split from the update key.
C29_WarmupStateDiscarded ==
    (FullUpdate /\ agent.variant = "NUTS" /\ LastCall.out.kind = "return") =>
        LET ks == split(LastCall.key, 2)
            draws == inference_loop(ks[2], NutsWarmup.step_size,
                                    NutsWarmup.inverse_mass_matrix, NutsStartState,
                                    agent.nsamples, memory.x, memory.y)
            new == LastCall.out.belief[1]
        IN  /\ ks[1] # ks[2]
            /\ new.step_size = NutsWarmup.step_size
            /\ new.inverse_mass_matrix = <<NutsWarmup.inverse_mass_matrix>>
            /\ new.state = states_mean(draws)
            /\ new.samples = <<PySliceLast(draws, agent.nlast)>>

\* C29 witness: a NUTS update whose warm-up ended in a state other than the one
\* it started from, and whose new belief differs from the one sampling from
\* the warm-up's final state would have given.
C29_Witness ==
    /\ FullUpdate /\ agent.variant = "NUTS" /\ LastCall.out.kind = "return"
    /\ NutsWarmup.final_state # NutsStartState
    /\ LastCall.out.belief[1].state #
          states_mean(inference_loop(split(LastCall.key, 2)[2], NutsWarmup.step_size,
                                     NutsWarmup.inverse_mass_matrix, NutsWarmup.final_state,
                                     agent.nsamples, memory.x, memory.y))

\* C30: in an SGLD update that performs the inference step the minibatch size
\* handed to the sampler is at least 1 and at most the number of retained
\* samples: the retained count when batch_size is -1, the configured
\* batch_size otherwise.
C30_SgldMinibatchWithinBuffer ==
    (FullUpdate /\ agent.variant = "SGLD" /\ LastCall.out.kind = "return") =>
        LET handed == LastCall.out.belief[1].sampler[1].batch_size IN
        /\ handed = IF agent.batch_size = -1 THEN Len(memory.x) ELSE agent.batch_size
        /\ 1 <= handed
        /\ handed <= Len(memory.x)

====
